---- MODULE Spec2Model ----
(***************************************************************************)
(* ccup, the command line client of the cloudconvert package: the history  *)
(* index built by main, convert with the polling loop of Conversion.Wait,  *)
(* and the batch driver with its token channel.                            *)
(*                                                                         *)
(* Strings that the code takes apart (file names, index keys) are          *)
(* sequences of one-character strings; strings the code only compares with *)
(* "" or passes on (URLs, messages, steps) are TLA+ strings.               *)
(***************************************************************************)
EXTENDS Integers, Sequences, FiniteSets, TLC

\* ------------------------------------------------------------------ bounds

\* longest history list returned by the remote API
MaxHist == 2

\* ----------------------------------------------------------------- strings

\* strings.ToLower on one character (the model's only upper-case letters)
LowerChar(c) == IF c = "A" THEN "a" ELSE IF c = "B" THEN "b" ELSE c

\* strings.ToLower
ToLower(s) == [i \in 1..Len(s) |-> LowerChar(s[i])]

\* os.PathSeparator ("/" on the platforms the model covers)
PathSeparator == "/"

\* strings.Replace(s, " ", string(os.PathSeparator), -1)
ReplaceSpaces(s) == [i \in 1..Len(s) |-> IF s[i] = " " THEN PathSeparator ELSE s[i]]

\* path without its trailing separators (first loop of filepath.Base)
RECURSIVE StripTrailingSep(_)
StripTrailingSep(s) ==
    IF Len(s) > 0 /\ s[Len(s)] = PathSeparator
        THEN StripTrailingSep(SubSeq(s, 1, Len(s) - 1))
        ELSE s

\* index of the last separator of s, 0 when there is none
RECURSIVE LastSep(_, _)
LastSep(s, i) ==
    IF i = 0 THEN 0
    ELSE IF s[i] = PathSeparator THEN i
    ELSE LastSep(s, i - 1)

\* filepath.Base: the last element of the path; "." for the empty path and
\* the separator for a path of separators only
Base(path) ==
    IF path = <<>> THEN <<".">>
    ELSE LET p == StripTrailingSep(path)
             q == SubSeq(p, LastSep(p, Len(p)) + 1, Len(p))
         IN  IF q = <<>> THEN <<PathSeparator>> ELSE q

\* index of the "." that starts the extension of path: the last "." of its
\* last element, 0 when there is none (the loop of filepath.Ext)
RECURSIVE ExtStart(_, _)
ExtStart(path, i) ==
    IF i = 0 \/ path[i] = PathSeparator THEN 0
    ELSE IF path[i] = "." THEN i
    ELSE ExtStart(path, i - 1)

\* filepath.Ext: the extension with its dot, or the empty string
Ext(path) ==
    LET i == ExtStart(path, Len(path))
    IN  IF i = 0 THEN <<>> ELSE SubSeq(path, i, Len(path))

\* strings.HasSuffix
HasSuffix(s, suffix) ==
    /\ Len(suffix) <= Len(s)
    /\ SubSeq(s, Len(s) - Len(suffix) + 1, Len(s)) = suffix

\* ------------------------------------------------------------------- state

VARIABLES
    mainpc,          \* position of main: "list", "index", "mode", "convert",
                     \* "dispatch", "wgwait", "returned", "exited"
    exitCode,        \* the code of os.Exit, 0 while none was called
    remoteHist,      \* what the remote API answers to the history requests
    listFail,        \* TRUE when the history request itself fails
    history,         \* the list returned by List
    hi,              \* position of the index loop over history (1-based)
    oldConversions,  \* the history index: key -> output URL
    multi,           \* flag -multi
    flagToFormat,    \* flag -tofmt
    output,          \* flag -output (opts.Output)
    args,            \* flag.Args()
    fcvt,            \* what this build's float64 -> int64 conversion yields
                     \* for a value int64 cannot hold
    cv,              \* the conversion of single mode: the locals of convert
                     \* and of Conversion.Wait, and the requests it has sent
    conc,            \* number of tokens in the channel conc
    wg,              \* counter of the WaitGroup
    di,              \* position of the dispatch loop over the arguments
    wpc,             \* position of each batch worker
    outcome,         \* what each batch worker logged: "none", "ok", "failed"
    url,             \* the URLs of one process: as the remote returns them, as
                     \* the package keeps them, and the requests sent to them
    up,              \* one call of Process.UploadFile: its arguments and locals
    tw               \* one call of the timer-based Conversion.Wait: its
                     \* locals, its timer and what the remote answers

idxVars == <<remoteHist, listFail, history, hi, oldConversions>>
flagVars == <<multi, flagToFormat, output, args, fcvt>>
batchVars == <<conc, wg, di, wpc, outcome>>
libVars == <<url, up, tw>>
vars == <<mainpc, exitCode, idxVars, flagVars, cv, batchVars, libVars>>

\* StatusResponse, reduced to the fields the history index reads
NoStatus == [in |-> <<>>, out |-> "", url |-> ""]

RECURSIVE SeqsUpTo(_, _)
SeqsUpTo(S, n) ==
    IF n = 0 THEN {<<>>}
    ELSE LET shorter == SeqsUpTo(S, n - 1)
         IN  shorter \cup {Append(q, e) : q \in {r \in shorter : Len(r) = n - 1}, e \in S}

\* --------------------------------------------------------------- List, main

\* List: the history with the status of each entry filled in; an entry whose
\* status lookup fails keeps the zero status
ListResult(rh) ==
    [i \in 1..Len(rh) |->
        [step |-> rh[i].step,
         status |-> IF rh[i].ok THEN rh[i].status ELSE NoStatus]]

\* the error List returns next to the list: err is assigned by every status
\* lookup of the loop and returned as the last lookup left it
ListErr(rh) == Len(rh) > 0 /\ ~rh[Len(rh)].ok

\* main, lines 59-61: fetch the history; on an error the index stays empty
ListHistory ==
    /\ mainpc = "list"
    /\ IF listFail \/ ListErr(remoteHist)
          THEN /\ mainpc' = "mode"
               /\ history' = <<>>
          ELSE /\ mainpc' = "index"
               /\ history' = ListResult(remoteHist)
    /\ hi' = 1
    /\ UNCHANGED <<exitCode, remoteHist, listFail, oldConversions, flagVars, libVars, cv, batchVars>>

\* a test that lets an entry without output file name through
SkippedNoOutputName(h) ==
    \/ h.step # "finished"
    \/ h.status.url = ""
    \/ h.status.in = <<>>

\* the entries the index loop skips (the continue of lines 63-67)
Skipped(h) ==
    \/ h.step # "finished"
    \/ h.status.url = ""
    \/ h.status.out = ""
    \/ h.status.in = <<>>

\* a first key that keeps the case of the input file name
Key1NoLower(h) == Base(h.status.in)

\* first key of an entry (line 69)
Key1(h) == ToLower(Base(h.status.in))

\* second key of an entry (lines 71-72)
Key2(h) == Base(ReplaceSpaces(Key1(h)))

\* m with key k set to v (a Go map assignment)
MapSet(m, k, v) == [x \in DOMAIN m \cup {k} |-> IF x = k THEN v ELSE m[x]]

\* one iteration of the loop of lines 62-73
IndexEntry ==
    /\ mainpc = "index"
    /\ hi <= Len(history)
    /\ LET h == history[hi]
       IN  oldConversions' =
               IF Skipped(h) THEN oldConversions
               ELSE MapSet(MapSet(oldConversions, Key1(h), h.status.url),
                           Key2(h), h.status.url)
    /\ hi' = hi + 1
    /\ UNCHANGED <<mainpc, exitCode, remoteHist, listFail, history, flagVars, libVars, cv, batchVars>>

\* the loop of lines 62-73 ends
IndexDone ==
    /\ mainpc = "index"
    /\ hi > Len(history)
    /\ mainpc' = "mode"
    /\ UNCHANGED <<exitCode, idxVars, flagVars, libVars, cv, batchVars>>

EmptyMap == [x \in {} |-> ""]

\* ---------------------------------------------------- the remote's answers

\* The percent field of a status after the trim of its quotes: the empty
\* string, a text ParseFloat rejects, the text "NaN" (which ParseFloat
\* accepts), or a number, here a whole number of percent.
Percents ==
    {[kind |-> "empty", val |-> 0], [kind |-> "bad", val |-> 0],
     [kind |-> "nan", val |-> 0]}
        \cup [kind : {"num"}, val : {-1, 0, 1, 45, 100, 101}]

\* time.Since(time.Unix(s.StartTime, 0)) in seconds: a start time in the
\* future, now, in the past, and the start time 0 of a status without one
Elapseds == {-5, 0, 10, 1800000000}

FetchFailed == [ok |-> FALSE, step |-> "", message |-> "", percent |-> [kind |-> "empty", val |-> 0], elapsed |-> 0]

\* what a status request yields: a failure of the request, or a status
FetchResults ==
    {FetchFailed}
        \cup [ok : {TRUE}, step : {"convert", "finished"},
              message : {"m1"}, percent : Percents, elapsed : Elapseds]
        \cup [ok : {TRUE}, step : {"error"},
              message : {"m1", "m2"}, percent : Percents, elapsed : Elapseds]

Terminal(fr) == fr.ok /\ fr.step \in {"finished", "error"}

\* what the request of NewProcess yields: a failure of the request or of
\* the decoding, or a Process with its url and error fields
CreateResults ==
    {[err |-> TRUE, URL |-> "", Error |-> ""],
     [err |-> FALSE, URL |-> "P", Error |-> ""],
     [err |-> FALSE, URL |-> "P", Error |-> "e1"],
     [err |-> FALSE, URL |-> "", Error |-> "e2"]}

\* what the upload yields
UploadResults == {"ok", "err"}

\* what Save meets: the status it fetches again (Download), its output
\* URL, and whether the request for the output ("get") or the writing of
\* the destination file ("copy") fails
SaveResults ==
    [fetch : {FetchFailed}
                \cup [ok : {TRUE}, step : {"convert", "finished", "error"},
                      message : {"m1"}, percent : {[kind |-> "empty", val |-> 0]},
                      elapsed : {0}],
     url : {"", "U1"},
     io : {"ok", "get", "copy"}]

\* -------------------------------------------------------- Conversion.Wait

\* time.Second and time.Minute, in milliseconds
Second == 1000
Minute == 60000

\* the largest time.Duration (an int64 of nanoseconds), in kiloseconds
MaxDurationKs == 9223372

Abs(x) == IF x < 0 THEN -x ELSE x

Sgn(x) == IF x < 0 THEN -1 ELSE IF x > 0 THEN 1 ELSE 0

\* the sign of the float64 elapsed / percent * (100.0 - percent) / 2.0 for
\* a percent other than 0
EstimateSign(elapsed, percent) ==
    Sgn(elapsed) * Sgn(percent.val) * Sgn(100 - percent.val)

\* elapsed / percent * (100.0 - percent) / 2.0 is a float64 that int64 cannot
\* hold: a NaN, an infinity (percent is 0), or a magnitude of 2^63 ns or
\* more. (TLC's integers are 32 bits wide: the magnitude is compared in
\* kiloseconds.)
Unrepresentable(elapsed, percent) ==
    \/ percent.kind = "nan"
    \/ percent.val = 0
    \/ (Abs(elapsed) \div 1000) * Abs(100 - percent.val)
           >= 2 * Abs(percent.val) * MaxDurationKs

\* time.Duration(x) for a float64 x that int64 cannot hold: the result depends
\* on the build. "indefinite" builds (amd64) yield the smallest int64 whatever
\* x is; "saturate" builds (arm64) yield the largest int64 for x above the
\* range, the smallest for x below it and 0 for a NaN. Only the side of the
\* clamp's range matters afterwards: -1 stands for any value below 1 second,
\* Minute + 1 for any value above 1 minute.
Convert64(elapsed, percent) ==
    LET above == /\ percent.kind = "num"
                 /\ \/ percent.val = 0 /\ elapsed > 0
                    \/ percent.val # 0 /\ EstimateSign(elapsed, percent) > 0
    IN  IF fcvt = "saturate" /\ above THEN Minute + 1 ELSE -1

\* elapsed (seconds) from which the estimate, when it is above zero, is above
\* one minute for every percentage of Percents
LongElapsed == 13000

\* wait = time.Duration(elapsed / percent * (100.0 - percent) / 2.0), line
\* 425, in milliseconds
Estimate(elapsed, percent) ==
    IF Unrepresentable(elapsed, percent) THEN Convert64(elapsed, percent)
    ELSE IF EstimateSign(elapsed, percent) = 0 THEN 0
    ELSE IF EstimateSign(elapsed, percent) < 0 THEN -1
    ELSE IF Abs(elapsed) >= LongElapsed THEN Minute + 1
    ELSE (Abs(elapsed) * 1000 * Abs(100 - percent.val)) \div (2 * Abs(percent.val))

\* the clamp of lines 427-431
Clamp(wait) ==
    IF wait < Second THEN Second
    ELSE IF wait > Minute THEN Minute
    ELSE wait

\* an estimate computed for every parsed percentage, whatever its range
EstimatedNoRange(percent) == percent.kind \in {"nan", "num"}

\* the percentages the estimate is computed for (the else of line 421)
Estimated(percent) ==
    \/ percent.kind = "nan"
    \/ percent.kind = "num" /\ ~(percent.val < 0 \/ percent.val > 100)

\* the sleep of line 434 after a status that is not terminal
SleepFor(s) ==
    IF s.percent.kind # "empty" /\ Estimated(s.percent)
        THEN Clamp(Estimate(s.elapsed, s.percent))
        ELSE Second

\* ----------------------------------------------------------------- convert

\* number of status fetches of one Wait that may be failures or statuses
\* that are not terminal; the remote then answers with a terminal step
MaxPolls == 5

\* The locals of one call of convert and of the calls it makes, and the
\* requests it has sent so far:
\*   pc        "idle" before the call, then the call convert is about to
\*             make ("lookup", "create", "start", "wait", "save", "saveold"),
\*             "ret" once it has returned
\*   ret       what convert returned: "nil" or "error" ("none" before)
\*   stage     the call whose error convert returned
\*   msg       the text of that error
\*   conv      NewConversion returned a Conversion
\*   waitRet   what Wait returned: "nil" or "error" ("none" before)
\*   errcnt    errcnt of Wait
\*   polls     number of status fetches of Wait
\*   last      the result of the last status fetch of Wait
\*   sleep     the sleep of the last iteration of Wait, in milliseconds (0:
\*             it returned instead)
\*   perr      the error field of the Process the creation returned
\*   started   Start returned nil
\*   row       the failed status fetches in a row up to the last fetch (no
\*             variable of the code: kept for the properties)
\*   ok        ok of convert: the search of the history has hit
\*   reqs      the requests sent, in order
\*   dl        the URL the output was requested from
\*   saved     the destination file was written in full
Blank ==
    [pc |-> "idle", fromFile |-> <<>>, toFile |-> <<>>, toFormat |-> <<>>,
     ret |-> "none", stage |-> "", msg |-> "", conv |-> FALSE,
     waitRet |-> "none", errcnt |-> 0, polls |-> 0, last |-> FetchFailed,
     sleep |-> 0, reqs |-> <<>>, dl |-> "", saved |-> FALSE,
     perr |-> "", started |-> FALSE, row |-> 0, ok |-> FALSE]

\* convert returns err
Return(c, stage, msg) ==
    [c EXCEPT !.pc = "ret", !.ret = "error", !.stage = stage, !.msg = msg]

\* convert returns nil
ReturnNil(c) == [c EXCEPT !.pc = "ret", !.ret = "nil"]

\* the call of convert (line 124)
Call(fromFile, toFile) ==
    [Blank EXCEPT !.pc = "lookup", !.fromFile = fromFile, !.toFile = toFile]

\* The output URLs the search of lines 126-137 can end with for fromFile:
\* that of the exact key when there is one, otherwise that of any key that
\* is a suffix of fromFile (the range over the map visits the keys in no
\* fixed order); the empty set when the search fails.
LookupHits(fromFile, idx) ==
    IF ToLower(fromFile) \in DOMAIN idx
        THEN {idx[ToLower(fromFile)]}
        ELSE {idx[k] : k \in {x \in DOMAIN idx : HasSuffix(fromFile, x)}}

\* lines 125-142: search the history; oldURL is the URL the search ended
\* with, "" when it failed
DoLookup(c, ok, oldURL) ==
    IF ok THEN [c EXCEPT !.pc = "saveold", !.ok = TRUE, !.dl = oldURL]
    ELSE [c EXCEPT !.pc = "create"]

\* a Save of an old conversion that asks for the status of the process before
\* it downloads, as if no DownloadURL were set
DoSaveOldRefetch(c, io) ==
    LET c1 == [c EXCEPT !.reqs = @ \o <<"status", "download">>]
    IN  IF io = "ok" THEN ReturnNil([c1 EXCEPT !.saved = TRUE])
        ELSE Return(c1, "Save", io)

\* Process{DownloadURL: oldURL}.Save(toFile) (line 140): Download requests
\* the recorded URL, Save writes the body to toFile. With an empty recorded
\* URL Download would ask for the status of a Process without URL, a request
\* that fails.
DoSaveOld(c, io) ==
    LET c1 == [c EXCEPT !.reqs = Append(@, "download")]
    IN  IF c.dl = "" THEN Return([c EXCEPT !.reqs = Append(@, "status")], "Save", "neterr")
        ELSE IF io = "ok" THEN ReturnNil([c1 EXCEPT !.saved = TRUE])
        ELSE Return(c1, "Save", io)

\* a getFormat that lowercases the extension
getFormatLower(fileName) ==
    LET ext == Ext(fileName)
    IN  IF ext = <<>> THEN <<>> ELSE ToLower(SubSeq(ext, 2, Len(ext)))

\* getFormat
getFormat(fileName) ==
    LET ext == Ext(fileName)
    IN  IF ext = <<>> THEN <<>> ELSE SubSeq(ext, 2, Len(ext))

\* a NewConversion that does not look at the error field of the Process
DoNewConversionNoErrorField(c, tofmt, cr) ==
    LET toFormat == IF tofmt = <<>> THEN getFormat(c.toFile) ELSE tofmt
        c1 == [c EXCEPT !.reqs = Append(@, "create"),
                        !.perr = IF cr.err THEN "" ELSE cr.Error]
    IN  IF cr.err THEN Return(c1, "NewConversion", "neterr")
        ELSE [c1 EXCEPT !.pc = "start", !.conv = TRUE, !.toFormat = toFormat]

\* NewConversion (lines 367-384) and lines 142-146 of convert: resolve the
\* format, request a new process; cr is what the request yields
DoNewConversion(c, tofmt, cr) ==
    LET toFormat == IF tofmt = <<>> THEN getFormat(c.toFile) ELSE tofmt
        c1 == [c EXCEPT !.reqs = Append(@, "create"),
                        !.perr = IF cr.err THEN "" ELSE cr.Error]
    IN  IF cr.err THEN Return(c1, "NewConversion", "neterr")
        ELSE IF cr.Error # "" THEN Return(c1, "NewConversion", cr.Error)
        ELSE [c1 EXCEPT !.pc = "start", !.conv = TRUE, !.toFormat = toFormat]

\* a convert that does not look at the error of Start
DoStartUnchecked(c, out, ur) ==
    LET c1 == [c EXCEPT !.reqs = Append(@, "upload"), !.started = (ur = "ok")]
    IN  IF out # "" THEN ReturnNil(c1) ELSE [c1 EXCEPT !.pc = "wait"]

\* Conversion.Start (lines 388-391) and lines 147-154 of convert: upload the
\* file; with an output other than a file convert returns without waiting
DoStart(c, out, ur) ==
    LET c1 == [c EXCEPT !.reqs = Append(@, "upload")]
    IN  IF ur # "ok" THEN Return(c1, "Start", "uploaderr")
        ELSE IF out # "" THEN ReturnNil([c1 EXCEPT !.started = TRUE])
        ELSE [c1 EXCEPT !.pc = "wait", !.started = TRUE]

\* a test that allows one failed fetch more
GivesUpLater(errcnt) == errcnt > 4

\* the test of line 402 on the incremented errcnt
GivesUp(errcnt) == errcnt > 3

\* the sleep of line 405 after a failed status fetch
Backoff == 10 * Second

\* a switch without the case "error"
WaitSwitchNoError(step) == IF step = "finished" THEN "nil" ELSE "none"

\* the switch of lines 409-414: what Wait returns for a step, "none" when
\* it goes on
WaitSwitch(step) ==
    IF step = "error" THEN "error"
    ELSE IF step = "finished" THEN "nil"
    ELSE "none"

\* One iteration of the loop of Conversion.Wait (lines 397-435), and lines
\* 155-158 of convert when the iteration returns; s is what the status
\* request yields.
DoWait(c, s) ==
    LET c1 == [c EXCEPT !.reqs = Append(@, "status"), !.polls = @ + 1, !.last = s,
                        !.sleep = 0, !.row = IF s.ok THEN 0 ELSE @ + 1]
        c2 == [c1 EXCEPT !.errcnt = @ + 1]
    IN  IF ~s.ok
            THEN IF GivesUp(c2.errcnt)
                    THEN Return([c2 EXCEPT !.waitRet = "error"], "Wait", "neterr")
                    ELSE [c2 EXCEPT !.sleep = Backoff]
        ELSE IF WaitSwitch(s.step) = "error"
            THEN Return([c1 EXCEPT !.waitRet = "error"], "Wait", s.message)
        ELSE IF WaitSwitch(s.step) = "nil"
            THEN [c1 EXCEPT !.waitRet = "nil", !.pc = "save"]
        ELSE [c1 EXCEPT !.sleep = SleepFor(s)]

\* Conversion.Save, Process.Save and Process.Download without a DownloadURL
\* (lines 297-351, 440-442): fetch the status again, request its output URL,
\* write the body to toFile
DoSave(c, sv) ==
    LET c1 == [c EXCEPT !.reqs = Append(@, "status")]
        c2 == [c1 EXCEPT !.reqs = Append(@, "download"), !.dl = sv.url]
    IN  IF ~sv.fetch.ok THEN Return(c1, "Save", "neterr")
        ELSE IF sv.fetch.step = "error" THEN Return(c1, "Save", sv.fetch.message)
        ELSE IF sv.io = "ok" THEN ReturnNil([c2 EXCEPT !.saved = TRUE])
        ELSE Return(c2, "Save", sv.io)

\* changeExt (lines 162-168)
changeExt(fileName, newExt) ==
    LET ext == Ext(fileName)
    IN  IF ext = <<>> THEN fileName \o <<".">> \o newExt
        ELSE SubSeq(fileName, 1, Len(fileName) - Len(ext)) \o <<".">> \o newExt

\* ------------------------------------------------------ main, single mode

\* lines 79-90: one file; the destination is the second argument or the
\* source with the extension of -tofmt
ModeSingle ==
    /\ mainpc = "mode"
    /\ ~multi
    /\ LET fromFile == args[1]
           toFile == IF Len(args) >= 2 THEN args[2] ELSE <<>>
       IN  IF toFile = <<>> /\ flagToFormat = <<>>
              THEN /\ mainpc' = "exited"
                   /\ exitCode' = 2
                   /\ cv' = cv
              ELSE /\ mainpc' = "convert"
                   /\ exitCode' = exitCode
                   /\ cv' = Call(fromFile,
                                 IF toFile = <<>> THEN changeExt(fromFile, flagToFormat)
                                 ELSE toFile)
    /\ UNCHANGED <<idxVars, flagVars, libVars, batchVars>>

\* convert, lines 125-141: the search of the history
ConvLookup ==
    /\ mainpc = "convert"
    /\ cv.pc = "lookup"
    /\ LET hits == LookupHits(cv.fromFile, oldConversions)
       IN  IF hits = {} THEN cv' = DoLookup(cv, FALSE, "")
           ELSE \E u \in hits : cv' = DoLookup(cv, TRUE, u)
    /\ UNCHANGED <<mainpc, exitCode, idxVars, flagVars, libVars, batchVars>>

\* convert, line 140: the download of an old conversion
ConvSaveOld ==
    /\ mainpc = "convert"
    /\ cv.pc = "saveold"
    /\ \E io \in {"ok", "get", "copy"} : cv' = DoSaveOld(cv, io)
    /\ UNCHANGED <<mainpc, exitCode, idxVars, flagVars, libVars, batchVars>>

\* convert, lines 142-146
ConvNewConversion ==
    /\ mainpc = "convert"
    /\ cv.pc = "create"
    /\ \E cr \in CreateResults : cv' = DoNewConversion(cv, flagToFormat, cr)
    /\ UNCHANGED <<mainpc, exitCode, idxVars, flagVars, libVars, batchVars>>

\* convert, lines 147-154
ConvStart ==
    /\ mainpc = "convert"
    /\ cv.pc = "start"
    /\ \E ur \in UploadResults : cv' = DoStart(cv, output, ur)
    /\ UNCHANGED <<mainpc, exitCode, idxVars, flagVars, libVars, batchVars>>

\* convert, lines 155-158: one iteration of the loop of Wait
ConvWait ==
    /\ mainpc = "convert"
    /\ cv.pc = "wait"
    /\ \E s \in FetchResults :
          /\ cv.polls < MaxPolls \/ Terminal(s)
          /\ cv' = DoWait(cv, s)
    /\ UNCHANGED <<mainpc, exitCode, idxVars, flagVars, libVars, batchVars>>

\* convert, line 159
ConvSave ==
    /\ mainpc = "convert"
    /\ cv.pc = "save"
    /\ \E sv \in SaveResults : cv' = DoSave(cv, sv)
    /\ UNCHANGED <<mainpc, exitCode, idxVars, flagVars, libVars, batchVars>>

\* lines 90-94: convert has returned; an error ends the process with code 4
SingleReturn ==
    /\ mainpc = "convert"
    /\ cv.pc = "ret"
    /\ IF cv.ret = "error"
          THEN mainpc' = "exited" /\ exitCode' = 4
          ELSE mainpc' = "returned" /\ exitCode' = exitCode
    /\ UNCHANGED <<idxVars, flagVars, libVars, cv, batchVars>>

\* ------------------------------------------------------- main, batch mode

\* cap(conc), the number of tokens (line 101)
C == 5

\* the files of a batch
Files == 1..Len(args)

\* lines 97-104: -tofmt is needed; make the channel and fill it
ModeBatch ==
    /\ mainpc = "mode"
    /\ multi
    /\ IF flagToFormat = <<>>
          THEN mainpc' = "exited" /\ exitCode' = 2 /\ conc' = conc
          ELSE mainpc' = "dispatch" /\ exitCode' = exitCode /\ conc' = C
    /\ UNCHANGED <<idxVars, flagVars, libVars, cv, wg, di, wpc, outcome>>

\* one iteration of the loop of lines 106-119: wg.Add(1) and the go statement
Dispatch ==
    /\ mainpc = "dispatch"
    /\ di <= Len(args)
    /\ wg' = wg + 1
    /\ wpc' = [wpc EXCEPT ![di] = "recv"]
    /\ di' = di + 1
    /\ UNCHANGED <<mainpc, exitCode, idxVars, flagVars, libVars, cv, conc, outcome>>

\* the loop of lines 106-119 ends
DispatchDone ==
    /\ mainpc = "dispatch"
    /\ di > Len(args)
    /\ mainpc' = "wgwait"
    /\ UNCHANGED <<exitCode, idxVars, flagVars, libVars, cv, batchVars>>

\* a return of main that does not wait for the workers
WgWaitNoWait ==
    /\ mainpc = "wgwait"
    /\ mainpc' = "returned"
    /\ UNCHANGED <<exitCode, idxVars, flagVars, libVars, cv, batchVars>>

\* wg.Wait() and the return of line 121
WgWait ==
    /\ mainpc = "wgwait"
    /\ wg = 0
    /\ mainpc' = "returned"
    /\ UNCHANGED <<exitCode, idxVars, flagVars, libVars, cv, batchVars>>

\* a worker that starts without taking a token
WorkerAcquireNoToken(f) ==
    /\ wpc[f] = "recv"
    /\ wpc' = [wpc EXCEPT ![f] = "convert"]
    /\ UNCHANGED <<mainpc, exitCode, idxVars, flagVars, libVars, cv, conc, wg, di, outcome>>

\* token := <-conc (line 110)
WorkerAcquire(f) ==
    /\ wpc[f] = "recv"
    /\ conc > 0
    /\ conc' = conc - 1
    /\ wpc' = [wpc EXCEPT ![f] = "convert"]
    /\ UNCHANGED <<mainpc, exitCode, idxVars, flagVars, libVars, cv, wg, di, outcome>>

\* What the remote and the file system answer to one conversion: to the
\* creation, to the upload, to the status fetches of Wait in order, and to
\* Save.
OkFetch == [ok |-> TRUE, step |-> "finished", message |-> "m1", percent |-> [kind |-> "num", val |-> 100], elapsed |-> 10]
OkEnv ==
    [create |-> [err |-> FALSE, URL |-> "P", Error |-> ""],
     upload |-> "ok",
     fetches |-> <<OkFetch>>,
     save |-> [fetch |-> [OkFetch EXCEPT !.percent = [kind |-> "empty", val |-> 0], !.elapsed = 0],
               url |-> "U1", io |-> "ok"]]

\* the status fetches of Wait in a batch: finished at once, an error step,
\* finished after a status in progress, and four failed fetches (a fifth
\* fetch would succeed)
BatchFetches ==
    {<<OkFetch>>,
     <<[OkFetch EXCEPT !.step = "error"]>>,
     <<[OkFetch EXCEPT !.step = "convert", !.percent = [kind |-> "num", val |-> 45]], OkFetch>>,
     <<FetchFailed, FetchFailed, FetchFailed, FetchFailed, OkFetch>>}

\* the environments of a batch: at most one answer differs from success
BatchEnvs ==
    {[OkEnv EXCEPT !.create = cr] : cr \in CreateResults}
        \cup {[OkEnv EXCEPT !.upload = ur] : ur \in UploadResults}
        \cup {[OkEnv EXCEPT !.fetches = fs] : fs \in BatchFetches}
        \cup {[OkEnv EXCEPT !.save = sv] :
                 sv \in {x \in SaveResults : x.url = "U1" /\ (x.fetch.ok => x.io # "ok")}}

\* the next call of convert, answered by env
Step(c, tofmt, out, env) ==
    CASE c.pc = "create" -> DoNewConversion(c, tofmt, env.create)
      [] c.pc = "start" -> DoStart(c, out, env.upload)
      [] c.pc = "wait" -> DoWait(c, env.fetches[c.polls + 1])
      [] c.pc = "save" -> DoSave(c, env.save)
      [] c.pc = "saveold" -> DoSaveOld(c, env.save.io)

\* convert from c to its return, one call after the other
RECURSIVE Run(_, _, _, _)
Run(c, tofmt, out, env) ==
    IF c.pc = "ret"
        THEN c
        ELSE CHOOSE r \in {Run(n, tofmt, out, env) : n \in {Step(c, tofmt, out, env)}} : TRUE

\* what convert can return for fromFile in a batch
ConvertResults(fromFile) ==
    LET c0 == Call(fromFile, changeExt(fromFile, flagToFormat))
        hits == LookupHits(fromFile, oldConversions)
    IN  {Run(DoLookup(c0, hits # {}, u), flagToFormat, output, env).ret :
            env \in BatchEnvs, u \in (IF hits = {} THEN {""} ELSE hits)}

\* a worker that ends the process when its conversion fails, as single mode
\* does
WorkerConvertFatal(f) ==
    /\ wpc[f] = "convert"
    /\ \E r \in ConvertResults(args[f]) :
          /\ outcome' = [outcome EXCEPT ![f] = IF r = "nil" THEN "ok" ELSE "failed"]
          /\ IF r = "nil"
                THEN mainpc' = mainpc /\ exitCode' = exitCode
                ELSE mainpc' = "exited" /\ exitCode' = 4
    /\ wpc' = [wpc EXCEPT ![f] = "send"]
    /\ UNCHANGED <<idxVars, flagVars, libVars, cv, conc, wg, di>>

\* a worker that records its conversion in the index once it has succeeded
WorkerConvertCaching(f) ==
    /\ wpc[f] = "convert"
    /\ \E r \in ConvertResults(args[f]) :
          /\ outcome' = [outcome EXCEPT ![f] = IF r = "nil" THEN "ok" ELSE "failed"]
          /\ oldConversions' =
                 IF r = "nil" THEN MapSet(oldConversions, ToLower(args[f]), "U1")
                 ELSE oldConversions
    /\ wpc' = [wpc EXCEPT ![f] = "send"]
    /\ UNCHANGED <<mainpc, exitCode, remoteHist, listFail, history, hi, flagVars,
                   libVars, cv, conc, wg, di>>

\* lines 111-116: the call of convert and the log of its result
WorkerConvert(f) ==
    /\ wpc[f] = "convert"
    /\ \E r \in ConvertResults(args[f]) :
          outcome' = [outcome EXCEPT ![f] = IF r = "nil" THEN "ok" ELSE "failed"]
    /\ wpc' = [wpc EXCEPT ![f] = "send"]
    /\ UNCHANGED <<mainpc, exitCode, idxVars, flagVars, libVars, cv, conc, wg, di>>

\* a worker that gives its token back only when its conversion succeeded
WorkerReleaseOnSuccess(f) ==
    /\ wpc[f] = "send"
    /\ IF outcome[f] = "failed"
          THEN conc' = conc
          ELSE conc < C /\ conc' = conc + 1
    /\ wpc' = [wpc EXCEPT ![f] = "exit"]
    /\ UNCHANGED <<mainpc, exitCode, idxVars, flagVars, libVars, cv, wg, di, outcome>>

\* conc <- token (line 117)
WorkerRelease(f) ==
    /\ wpc[f] = "send"
    /\ conc < C
    /\ conc' = conc + 1
    /\ wpc' = [wpc EXCEPT ![f] = "exit"]
    /\ UNCHANGED <<mainpc, exitCode, idxVars, flagVars, libVars, cv, wg, di, outcome>>

\* the deferred wg.Done() (line 109)
WorkerDone(f) ==
    /\ wpc[f] = "exit"
    /\ wg' = wg - 1
    /\ wpc' = [wpc EXCEPT ![f] = "done"]
    /\ UNCHANGED <<mainpc, exitCode, idxVars, flagVars, libVars, cv, conc, di, outcome>>

\* ------------------------------------------------- the URLs of a process

\* A URL the package takes apart is a sequence of its parts: a scheme
\* ("http", "https"), ":", "/", a host or a path element.

\* strings.HasPrefix
HasPrefix(s, prefix) ==
    /\ Len(prefix) <= Len(s)
    /\ SubSeq(s, 1, Len(prefix)) = prefix

\* strings.IndexByte: the index (from 0) of the first c in s, -1 without one
RECURSIVE IndexFrom(_, _, _)
IndexFrom(s, c, i) ==
    IF i > Len(s) THEN -1
    ELSE IF s[i] = c THEN i - 1
    ELSE IndexFrom(s, c, i + 1)

IndexByte(s, c) == IndexFrom(s, c, 1)

\* the job URLs the remote returns: without scheme ("//h/p"), with one, a
\* path only, none
JobURLs ==
    {<<"/", "/", "h", "/", "p">>,
     <<"https", ":", "/", "/", "h", "/", "p">>,
     <<"http", ":", "/", "/", "h", "/", "p">>,
     <<"http", ":", "/", "/", "h", ":", "8", "/", "p">>,
     <<"/", "p">>,
     <<>>}

\* the output URLs a status reports
OutputURLs ==
    {<<"/", "/", "cdn", "/", "b">>,
     <<"/", "/", "cdn", ":", "8", "/", "b">>,
     <<"https", ":", "/", "/", "cdn", "/", "b">>,
     <<"http", ":", "/", "/", "cdn", "/", "b">>,
     <<>>}

\* NewProcess, lines 142-144, and List, lines 67-70: a job URL that begins
\* with "//" gets "https:" (both requests go to CloudURLBase)
NormalizeJobURL(u) ==
    IF HasPrefix(u, <<"/", "/">>) THEN <<"https", ":">> \o u ELSE u

\* a Status that returns the output URL as the remote reports it
NormalizeOutputURLNone(pURL, outputURL) == outputURL

\* Process.Status, lines 290-292: an output URL that begins with "//" gets
\* p.URL[:strings.IndexByte(p.URL, ':')+1]
NormalizeOutputURL(pURL, outputURL) ==
    IF HasPrefix(outputURL, <<"/", "/">>)
        THEN SubSeq(pURL, 1, IndexByte(pURL, ":") + 1) \o outputURL
        ELSE outputURL

\* http.Get sends a request only to an http or https URL with a host
Reachable(u) ==
    /\ Len(u) >= 5
    /\ u[1] \in {"http", "https"}
    /\ SubSeq(u, 2, 4) = <<":", "/", "/">>

\* The URLs of one process:
\*   pc            "idle", "start", "status", "download", "done", "failed"
\*   origin        where the job URL comes from: "create" (NewProcess) or
\*                 "history" (List)
\*   remoteURL     the job URL as the remote returns it
\*   remoteOutput  the output URL as the status of the remote reports it
\*   net           the status request reaches the remote
\*   URL           Process.URL
\*   Output        s.Output.URL as Status returns it
\*   reqs          the URLs of the requests sent for this process
NoURLs ==
    [pc |-> "idle", origin |-> "create", remoteURL |-> <<>>, remoteOutput |-> <<>>,
     net |-> TRUE, URL |-> <<>>, Output |-> <<>>, reqs |-> <<>>]

\* NewProcess (lines 140-145): the decoded Process with its URL made absolute
URLNewProcess ==
    /\ url.pc = "start"
    /\ url.origin = "create"
    /\ url' = [url EXCEPT !.pc = "status", !.URL = NormalizeJobURL(url.remoteURL)]
    /\ UNCHANGED <<mainpc, exitCode, idxVars, flagVars, cv, batchVars, up, tw>>

\* List (lines 66-70): an entry of the history with its URL made absolute
URLList ==
    /\ url.pc = "start"
    /\ url.origin = "history"
    /\ url' = [url EXCEPT !.pc = "status", !.URL = NormalizeJobURL(url.remoteURL)]
    /\ UNCHANGED <<mainpc, exitCode, idxVars, flagVars, cv, batchVars, up, tw>>

\* Process.Status (lines 282-294), called by Download (line 300) and by List
\* (line 71): the request to p.URL and the output URL of the decoded status
URLStatus ==
    /\ url.pc = "status"
    /\ url' = IF Reachable(url.URL) /\ url.net
                 THEN [url EXCEPT !.pc = "download",
                                  !.reqs = Append(@, url.URL),
                                  !.Output = NormalizeOutputURL(url.URL, url.remoteOutput)]
                 ELSE [url EXCEPT !.pc = "failed",
                                  !.reqs = IF Reachable(url.URL) THEN Append(@, url.URL) ELSE @]
    /\ UNCHANGED <<mainpc, exitCode, idxVars, flagVars, cv, batchVars, up, tw>>

\* Process.Download (lines 307-314): the request for the output; main passes
\* the output URLs of the history on to it only when they are not empty
URLDownload ==
    /\ url.pc = "download"
    /\ url' = IF url.Output = <<>>
                 THEN [url EXCEPT !.pc = "failed"]
                 ELSE [url EXCEPT !.pc = "done", !.reqs = Append(@, url.Output)]
    /\ UNCHANGED <<mainpc, exitCode, idxVars, flagVars, cv, batchVars, up, tw>>

\* ---------------------------------------------------- Process.UploadFile

\* *Options: the nil pointer, or a pointer to an Options value
NilOptions ==
    [nil |-> TRUE, Email |-> FALSE, Output |-> "", Callback |-> "", ConversionOpts |-> {}]

\* the Options values of the model; ConversionOpts is the set of its keys
\* (each with a value that is not empty)
OptionsValues ==
    [nil : {FALSE}, Email : BOOLEAN, Output : {"", "s3"}, Callback : {"", "cb", "long"},
     ConversionOpts : {{}, {"q"}}]

\* the form field of a conversion option: "options[" + k + "]"
OptionField(k) == IF k = "q" THEN "options[q]" ELSE "options[]"

\* the size of the buffer of bufio.NewWriter(w) (line 168), in bytes
DefaultBufSize == 4096

\* the bytes of a value: the value "long" stands for a value of 5000 bytes
\* (a callback URL with a long query), any other for a short one
ShortLen == 8
LongLen == 5000
ValueLen(v) == IF v = "long" THEN LongLen ELSE ShortLen

\* the bytes multipart writes before the content of a part (the boundary
\* line, the Content-Disposition line, the empty line), and those Close
\* writes after the last part (the closing boundary)
HeaderLen == 128
TrailerLen == 64

\* mwSet: the bytes of one form field, its header and its value
PartLen(v) == HeaderLen + ValueLen(v)

\* mwSetMap over omap (lines 176-186): the bytes of the fields whose value
\* is not empty, whatever order the range visits them in
MetaLen(outFormat, o) ==
    PartLen("upload")
        + (IF outFormat # "" THEN PartLen(outFormat) ELSE 0)
        + (IF o.Output # "" THEN PartLen(o.Output) ELSE 0)
        + (IF o.Callback # "" THEN PartLen(o.Callback) ELSE 0)
        + (IF o.Email THEN PartLen("1") ELSE 0)
        + Cardinality(o.ConversionOpts) * PartLen("v")

\* the sizes of the uploaded file, in bytes
FileLens == {100, 9000}

\* bw.Write of n bytes with b bytes buffered: what fits is buffered; what
\* does not makes bw write to the pipe, the buffer when it is full and
\* directly what is longer than the buffer. buffered are the bytes left in
\* the buffer, out the bytes handed to w.Write.
BufWrite(b, n) ==
    IF n <= DefaultBufSize - b THEN [buffered |-> b + n, out |-> 0]
    ELSE LET rest == IF b = 0 THEN n ELSE n - (DefaultBufSize - b)
         IN  IF rest > DefaultBufSize THEN [buffered |-> 0, out |-> b + n]
             ELSE [buffered |-> rest, out |-> b + n - rest]

\* One call of Process.UploadFile(file, outFormat, opts):
\*   pc         "idle", then the part of UploadFile about to run ("options",
\*              "fields", "formfile", "open", "post"), "ret" once it has
\*              returned, "panic" once it has panicked
\*   exists     os.Open finds the file
\*   post       what http.Post yields: "ok" or "err"
\*   read       what reading the opened file yields: "ok", or "err" for a
\*              read that fails before the first byte
\*   fileLen    the bytes of the file
\*   o          the local o
\*   fields     the form fields written by mwSetMap
\*   filePart   the form file was created and the file opened
\*   buffered   the bytes in the buffer of bw
\*   pend       the bytes of the w.Write in progress: a write to the pipe
\*              returns once a reader has taken its bytes, or with an error
\*              once the reader is closed
\*   werr       a write to the pipe has failed (bw keeps the error and
\*              writes no more)
\*   gpc        the goroutine of lines 198-209: "none" before the go
\*              statement, then "copy", "mwclose", "flush", "wclose", "done"
\*   copied     the bytes of the file io.Copy has written
\*   closing    mw.Close has written the closing boundary
\*   wclosed    w.Close has run
\*   rpc        the reader of the pipe, the request of http.Post: "none",
\*              "reading", "eof" once it has read the end of the stream,
\*              "closed" once the request has failed and closed its body
\*   got        the bytes the reader has read
\*   sent       the request of http.Post was sent and answered
\*   err        the error returned ("" for nil)
NoUpload ==
    [pc |-> "idle", opts |-> NilOptions, outFormat |-> "", exists |-> TRUE,
     post |-> "ok", read |-> "ok", fileLen |-> 0, o |-> NilOptions,
     fields |-> {}, filePart |-> FALSE, buffered |-> 0, pend |-> 0,
     werr |-> FALSE, gpc |-> "none", copied |-> 0, closing |-> FALSE,
     wclosed |-> FALSE, rpc |-> "none", got |-> 0, sent |-> FALSE, err |-> ""]

\* a write of n bytes to bw by UploadFile or its goroutine
Written(u, n) ==
    IF u.werr THEN u
    ELSE LET w == BufWrite(u.buffered, n)
         IN  [u EXCEPT !.buffered = w.buffered, !.pend = w.out]

\* lines 171-175: o is *opts when opts is not nil; the capacity of omap is
\* computed from opts.ConversionOpts, which dereferences opts
UploadOptions ==
    /\ up.pc = "options"
    /\ up' = IF up.opts.nil
                THEN [up EXCEPT !.pc = "panic"]
                ELSE [up EXCEPT !.pc = "fields", !.o = up.opts]
    /\ UNCHANGED <<mainpc, exitCode, idxVars, flagVars, cv, batchVars, url, tw>>

\* lines 176-188 and mwSetMap: the fields of omap whose value is not empty,
\* written to bw
UploadFields ==
    /\ up.pc = "fields"
    /\ up' = [Written(up, MetaLen(up.outFormat, up.o)) EXCEPT
                !.pc = "formfile",
                !.fields = {"input"}
                    \cup (IF up.outFormat # "" THEN {"outputformat"} ELSE {})
                    \cup (IF up.o.Output # "" THEN {"output"} ELSE {})
                    \cup (IF up.o.Callback # "" THEN {"callback"} ELSE {})
                    \cup (IF up.o.Email THEN {"email"} ELSE {})
                    \cup {OptionField(k) : k \in up.o.ConversionOpts}]
    /\ UNCHANGED <<mainpc, exitCode, idxVars, flagVars, cv, batchVars, url, tw>>

\* lines 189-192: mw.CreateFormFile writes the header of the file part to
\* bw, once the writes of mwSetMap have returned
UploadFormFile ==
    /\ up.pc = "formfile"
    /\ up.pend = 0
    /\ up' = [Written(up, HeaderLen) EXCEPT !.pc = "open"]
    /\ UNCHANGED <<mainpc, exitCode, idxVars, flagVars, cv, batchVars, url, tw>>

\* lines 193-198: os.Open, once the write of CreateFormFile has returned,
\* and the go statement
UploadOpen ==
    /\ up.pc = "open"
    /\ up.pend = 0
    /\ up' = IF up.exists
                THEN [up EXCEPT !.pc = "post", !.filePart = TRUE, !.gpc = "copy"]
                ELSE [up EXCEPT !.pc = "ret", !.err = "open"]
    /\ UNCHANGED <<mainpc, exitCode, idxVars, flagVars, cv, batchVars, url, tw>>

\* line 210: http.Post starts to read the body from r; a request that
\* fails closes its body and http.Post returns the error, which UploadFile
\* returns (line 217)
UploadPost ==
    /\ up.pc = "post"
    /\ up.rpc = "none"
    /\ up' = IF up.post = "ok"
                THEN [up EXCEPT !.rpc = "reading"]
                ELSE [up EXCEPT !.rpc = "closed", !.pc = "ret", !.err = "post"]
    /\ UNCHANGED <<mainpc, exitCode, idxVars, flagVars, cv, batchVars, url, tw>>

\* lines 210-217: the body was read to its end, the response arrives and
\* UploadFile returns
UploadResponse ==
    /\ up.pc = "post"
    /\ up.rpc = "eof"
    /\ up' = [up EXCEPT !.pc = "ret", !.sent = TRUE, !.err = ""]
    /\ UNCHANGED <<mainpc, exitCode, idxVars, flagVars, cv, batchVars, url, tw>>

\* the pipe of line 167: the reader takes the bytes of the write in
\* progress, which returns
PipeRead ==
    /\ up.rpc = "reading"
    /\ up.pend > 0
    /\ up' = [up EXCEPT !.got = @ + up.pend, !.pend = 0]
    /\ UNCHANGED <<mainpc, exitCode, idxVars, flagVars, cv, batchVars, url, tw>>

\* the pipe: a read after w.Close yields the end of the stream
PipeEOF ==
    /\ up.rpc = "reading"
    /\ up.pend = 0
    /\ up.wclosed
    /\ up' = [up EXCEPT !.rpc = "eof"]
    /\ UNCHANGED <<mainpc, exitCode, idxVars, flagVars, cv, batchVars, url, tw>>

\* the pipe: the write in progress fails once the reader is closed
PipeWriteClosed ==
    /\ up.rpc = "closed"
    /\ up.pend > 0
    /\ up' = [up EXCEPT !.pend = 0, !.werr = TRUE]
    /\ UNCHANGED <<mainpc, exitCode, idxVars, flagVars, cv, batchVars, url, tw>>

\* lines 202-208: io.Copy(pw, f) writes the bytes it reads from the file;
\* its error is logged
GoCopy ==
    /\ up.gpc = "copy"
    /\ LET n == IF up.read = "ok" THEN up.fileLen ELSE 0
       IN  up' = [Written(up, n) EXCEPT !.gpc = "mwclose", !.copied = n]
    /\ UNCHANGED <<mainpc, exitCode, idxVars, flagVars, cv, batchVars, url, tw>>

\* line 201, deferred: mw.Close writes the closing boundary, once the
\* writes of io.Copy have returned
GoMwClose ==
    /\ up.gpc = "mwclose"
    /\ up.pend = 0
    /\ up' = [Written(up, TrailerLen) EXCEPT !.gpc = "flush", !.closing = ~up.werr]
    /\ UNCHANGED <<mainpc, exitCode, idxVars, flagVars, cv, batchVars, url, tw>>

\* line 200, deferred: bw.Flush writes the buffered bytes to the pipe
GoFlush ==
    /\ up.gpc = "flush"
    /\ up.pend = 0
    /\ up' = IF up.werr THEN [up EXCEPT !.gpc = "wclose"]
             ELSE [up EXCEPT !.gpc = "wclose", !.pend = up.buffered, !.buffered = 0]
    /\ UNCHANGED <<mainpc, exitCode, idxVars, flagVars, cv, batchVars, url, tw>>

\* line 199, deferred: w.Close, once the write of Flush has returned
GoClose ==
    /\ up.gpc = "wclose"
    /\ up.pend = 0
    /\ up' = [up EXCEPT !.gpc = "done", !.wclosed = TRUE]
    /\ UNCHANGED <<mainpc, exitCode, idxVars, flagVars, cv, batchVars, url, tw>>

\* ------------------------------- Conversion.Wait(checkInterval), with timer

\* longest list of answers of the remote to the status requests of one Wait;
\* the remote answers "finished" to every later request
MaxScript == 3

\* what the remote answers to a status request: a failure of the request,
\* or a status with this step
TimerAnswers == {"fail", "convert", "finished", "error"}

\* One call of Conversion.Wait(checkInterval) of the timer-based version:
\*   pc        "idle", "new" (about to make the timer), "range" (at the
\*             receive from t.C of the for statement), "poll" (in the loop
\*             body), "ret" once it has returned
\*   script    the answers of the remote to the status requests, in order
\*   fired     the timer has sent its value on t.C
\*   stopped   t.Stop() has run
\*   C         number of values in t.C
\*   errcnt    errcnt
\*   polls     number of status requests
\*   ret       what Wait returned: "nil" or "error" ("none" before)
NoTimerWait ==
    [pc |-> "idle", script |-> <<>>, fired |-> FALSE, stopped |-> FALSE, C |-> 0,
     errcnt |-> 0, polls |-> 0, ret |-> "none"]

\* line 285-288: errcnt, time.NewTimer(checkInterval), and the for statement
\* reaches its receive from t.C
TimerWaitNew ==
    /\ tw.pc = "new"
    /\ tw' = [tw EXCEPT !.pc = "range"]
    /\ UNCHANGED <<mainpc, exitCode, idxVars, flagVars, cv, batchVars, url, up>>

\* the timer of time.NewTimer: after checkInterval it sends the time on t.C,
\* once
TimerFire ==
    /\ tw.pc \notin {"idle", "new"}
    /\ ~tw.fired /\ ~tw.stopped
    /\ tw' = [tw EXCEPT !.fired = TRUE, !.C = 1]
    /\ UNCHANGED <<mainpc, exitCode, idxVars, flagVars, cv, batchVars, url, up>>

\* line 288: for _ = range t.C receives a value
TimerWaitRecv ==
    /\ tw.pc = "range"
    /\ tw.C > 0
    /\ tw' = [tw EXCEPT !.pc = "poll", !.C = @ - 1]
    /\ UNCHANGED <<mainpc, exitCode, idxVars, flagVars, cv, batchVars, url, up>>

\* lines 289-303: the loop body, and the deferred t.Stop() when it returns
TimerWaitPoll ==
    /\ tw.pc = "poll"
    /\ LET s == IF tw.polls < Len(tw.script) THEN tw.script[tw.polls + 1] ELSE "finished"
           t1 == [tw EXCEPT !.polls = @ + 1]
           t2 == [t1 EXCEPT !.errcnt = @ + 1]
       IN  tw' = IF s = "fail"
                    THEN IF t2.errcnt > 3
                            THEN [t2 EXCEPT !.pc = "ret", !.ret = "error", !.stopped = TRUE]
                            ELSE [t2 EXCEPT !.pc = "range"]
                 ELSE IF s = "error"
                    THEN [t1 EXCEPT !.pc = "ret", !.ret = "error", !.stopped = TRUE]
                 ELSE IF s = "finished"
                    THEN [t1 EXCEPT !.pc = "ret", !.ret = "nil", !.stopped = TRUE]
                 ELSE [t1 EXCEPT !.pc = "range"]
    /\ UNCHANGED <<mainpc, exitCode, idxVars, flagVars, cv, batchVars, url, up>>

\* ---------------------------------------------------------- specifications

\* number of files of the largest batch
NFiles == 6

\* input file names reported by the remote history
HistNames ==
    { <<>>,
      <<"A", " ", "b">>,
      <<"d", "/", "A", " ", "b">>,
      <<"b">>,
      <<"A", " ">>,
      <<" ">> }

HistStatuses == [in : HistNames, out : {"", "o"}, url : {"", "U1", "U2"}]

\* One entry of the remote history: its step, whether the status lookup of
\* its URL succeeds, and the status that lookup returns.
HistEntries ==
    [step : {"finished", "error"}, ok : {TRUE}, status : HistStatuses]
        \cup [step : {"finished", "error"}, ok : {FALSE}, status : {NoStatus}]

\* the histories of the runs that convert: none, and one finished conversion
\* of "A b"
SmallHists ==
    {<<>>,
     <<[step |-> "finished", ok |-> TRUE,
        status |-> [in |-> <<"A", " ", "b">>, out |-> "o", url |-> "U1"]]>>}

OldAb == Head(CHOOSE h \in SmallHists : h # <<>>)

\* a later finished conversion of "b", with another output URL
OldB ==
    [step |-> "finished", ok |-> TRUE,
     status |-> [in |-> <<"b">>, out |-> "o", url |-> "U2"]]

\* The runs of single mode: the history, -tofmt, -output and the arguments
\* (a source, or a source and a destination).
SingleConfigs ==
    {[hist |-> <<>>, tofmt |-> <<"c">>, out |-> "", args |-> <<<<"a", ".", "d">>>>],
     [hist |-> <<>>, tofmt |-> <<>>, out |-> "", args |-> <<<<"a", ".", "d">>, <<"o", ".", "B">>>>],
     [hist |-> <<>>, tofmt |-> <<>>, out |-> "", args |-> <<<<"e">>, <<"o">>>>],
     [hist |-> <<>>, tofmt |-> <<>>, out |-> "", args |-> <<<<"e">>>>],
     [hist |-> <<>>, tofmt |-> <<"c">>, out |-> "s3", args |-> <<<<"e">>>>],
     [hist |-> <<OldAb>>, tofmt |-> <<"c">>, out |-> "", args |-> <<<<"A", " ", "b">>>>],
     [hist |-> <<OldAb>>, tofmt |-> <<"c">>, out |-> "", args |-> <<<<"d", "/", "a", " ", "b">>>>],
     [hist |-> <<OldAb>>, tofmt |-> <<"c">>, out |-> "", args |-> <<<<"a", ".", "d">>>>],
     [hist |-> <<OldAb, OldAb>>, tofmt |-> <<"c">>, out |-> "s3", args |-> <<<<"a", ".", "b">>>>],
     [hist |-> <<OldAb>>, tofmt |-> <<"c">>, out |-> "", args |-> <<<<"d", "/", "A", " ", "B">>>>],
     [hist |-> <<OldAb, OldB>>, tofmt |-> <<"c">>, out |-> "", args |-> <<<<"d", "/", "a", " ", "b">>>>],
     [hist |-> <<>>, tofmt |-> <<>>, out |-> "", args |-> <<<<"e">>, <<"d", ".", "x", "/", "o">>>>],
     [hist |-> <<>>, tofmt |-> <<"c">>, out |-> "", args |-> <<<<"e">>, <<"o", ".", "B">>>>]}

\* the arguments of batch mode are the first files of this list
BatchNames ==
    <<<<"A", " ", "b">>, <<"a", ".", "c">>, <<"d", "/", "a", ".", "c">>,
      <<"a", ".", "d">>, <<"d", "/", "a", " ", "b">>, <<"e">>>>

BatchArgs(n) == [i \in 1..n |-> BatchNames[((i - 1) % Len(BatchNames)) + 1]]

\* the state main starts from once the flags are parsed
InitCommon ==
    /\ mainpc = "list"
    /\ exitCode = 0
    /\ history = <<>>
    /\ hi = 1
    /\ oldConversions = EmptyMap
    /\ cv = Blank
    /\ conc = 0
    /\ wg = 0
    /\ di = 1
    /\ wpc = [f \in Files |-> "unborn"]
    /\ outcome = [f \in Files |-> "none"]

\* no call of the package other than those of main is under way
LibIdle == url = NoURLs /\ up = NoUpload /\ tw = NoTimerWait

\* main up to the end of the index construction
InitIndex ==
    /\ remoteHist \in SeqsUpTo(HistEntries, MaxHist)
    /\ listFail \in BOOLEAN
    /\ multi = FALSE
    /\ flagToFormat = <<"c">>
    /\ output = ""
    /\ args = <<<<"e">>>>
    /\ fcvt = "indefinite"
    /\ InitCommon
    /\ LibIdle

NextIndex == ListHistory \/ IndexEntry \/ IndexDone

SpecIndex == InitIndex /\ [][NextIndex]_vars

\* main in single mode
InitSingle ==
    /\ \E cfg \in SingleConfigs :
          /\ remoteHist = cfg.hist
          /\ flagToFormat = cfg.tofmt
          /\ output = cfg.out
          /\ args = cfg.args
    /\ listFail = FALSE
    /\ multi = FALSE
    /\ fcvt \in {"indefinite", "saturate"}
    /\ InitCommon
    /\ LibIdle

NextSingle ==
    \/ ListHistory \/ IndexEntry \/ IndexDone
    \/ ModeSingle
    \/ ConvLookup \/ ConvSaveOld \/ ConvNewConversion \/ ConvStart
    \/ ConvWait \/ ConvSave
    \/ SingleReturn

SpecSingle == InitSingle /\ [][NextSingle]_vars

\* main in batch mode
InitBatch ==
    /\ remoteHist = <<OldAb>>
    /\ listFail = FALSE
    /\ multi = TRUE
    /\ flagToFormat \in {<<>>, <<"c">>}
    /\ output = ""
    /\ \E n \in 1..NFiles : args = BatchArgs(n)
    /\ fcvt = "indefinite"
    /\ InitCommon
    /\ LibIdle

NextBatch ==
    \/ ListHistory \/ IndexEntry \/ IndexDone
    \/ ModeBatch \/ Dispatch \/ DispatchDone \/ WgWait
    \/ \E f \in Files : WorkerAcquire(f)
    \/ \E f \in Files : WorkerRelease(f)
    \/ \E f \in Files : WorkerDone(f)
    \/ \E f \in Files : WorkerConvert(f)

SpecBatch == InitBatch /\ [][NextBatch]_vars

\* the package called on its own: main stays where it starts
InitLibrary ==
    /\ remoteHist = <<>>
    /\ listFail = FALSE
    /\ multi = FALSE
    /\ flagToFormat = <<"c">>
    /\ output = ""
    /\ args = <<<<"e">>>>
    /\ fcvt = "indefinite"
    /\ InitCommon

\* the URLs of one process, from its creation or from the history to the
\* download of its output
InitURL ==
    /\ InitLibrary
    /\ url \in [pc : {"start"}, origin : {"create", "history"}, remoteURL : JobURLs,
                remoteOutput : OutputURLs, net : BOOLEAN, URL : {<<>>},
                Output : {<<>>}, reqs : {<<>>}]
    /\ up = NoUpload
    /\ tw = NoTimerWait

NextURL == URLNewProcess \/ URLList \/ URLStatus \/ URLDownload

SpecURL == InitURL /\ [][NextURL]_vars

\* one call of Process.UploadFile, as Conversion.Start makes it
InitUpload ==
    /\ InitLibrary
    /\ url = NoURLs
    /\ \E opts \in {NilOptions} \cup OptionsValues, f \in {"", "c"},
          e \in BOOLEAN, p \in {"ok", "err"}, rd \in {"ok", "err"}, n \in FileLens :
          up = [NoUpload EXCEPT !.pc = "options", !.opts = opts, !.outFormat = f,
                                !.exists = e, !.post = p, !.read = rd, !.fileLen = n]
    /\ tw = NoTimerWait

NextUpload ==
    \/ UploadOptions \/ UploadFields \/ UploadFormFile \/ UploadOpen
    \/ UploadPost \/ UploadResponse
    \/ PipeRead \/ PipeEOF \/ PipeWriteClosed
    \/ GoCopy \/ GoMwClose \/ GoFlush \/ GoClose

SpecUpload == InitUpload /\ [][NextUpload]_vars

\* one call of the timer-based Conversion.Wait
InitTimer ==
    /\ InitLibrary
    /\ url = NoURLs
    /\ up = NoUpload
    /\ \E sc \in SeqsUpTo(TimerAnswers, MaxScript) :
          tw = [NoTimerWait EXCEPT !.pc = "new", !.script = sc]

NextTimer == TimerWaitNew \/ TimerFire \/ TimerWaitRecv \/ TimerWaitPoll

SpecTimer == InitTimer /\ [][NextTimer]_vars

\* -------------------------------------------------------------- properties

\* the workers between their token := <-conc and their conc <- token
Active == {f \in Files : wpc[f] \in {"convert", "send"}}

\* C1: in batch mode at most C workers are between acquiring their token
\* and releasing it, whatever the number of files.
C1_AtMostCActive == multi => Cardinality(Active) <= C

\* C1 witness: C workers hold a token while another one waits for one.
C1_Witness ==
    /\ Cardinality(Active) = C
    /\ \E f \in Files : wpc[f] = "recv"

\* the measure of the batch driver: the steps main and the workers have left
StepsLeft ==
    LET left(f) == CASE wpc[f] = "unborn" -> 5
                     [] wpc[f] = "recv" -> 4
                     [] wpc[f] = "convert" -> 3
                     [] wpc[f] = "send" -> 2
                     [] wpc[f] = "exit" -> 1
                     [] wpc[f] = "done" -> 0
        RECURSIVE sum(_)
        sum(n) == IF n = 0 THEN 0 ELSE left(n) + sum(n - 1)
        main == CASE mainpc = "list" -> 5 + Len(remoteHist)
                  [] mainpc = "index" -> 5 + Len(history) - hi
                  [] mainpc = "mode" -> 3
                  [] mainpc = "dispatch" -> 2
                  [] mainpc = "wgwait" -> 1
                  [] OTHER -> 0
    IN  main + sum(Len(args))

\* the batch driver has ended: main has returned or called os.Exit
Ended == mainpc \in {"returned", "exited"}

\* C2: the batch driver returns only after every file has reached its
\* outcome, and it does return: before it has, a step of main or of a worker
\* is always possible (a worker that waits for a token has a worker before
\* it that holds one), and every step brings the end nearer.
C2_ReturnsAfterAll ==
    /\ [](multi /\ mainpc = "returned"
            => \A f \in Files : outcome[f] \in {"ok", "failed"} /\ wpc[f] = "done")
    /\ [](multi /\ ~Ended => ENABLED NextBatch)
    /\ [](multi => \A f \in Files : wpc[f] = "recv" /\ conc = 0 => Active # {})
    /\ [][StepsLeft' < StepsLeft]_vars

\* C2 witness: the driver has returned from a batch of more files than
\* tokens.
C2_Witness == multi /\ mainpc = "returned" /\ Len(args) > C

\* C3: in batch mode a failed conversion does not end the process, stops no
\* other worker (the step that fails changes nothing of the others), and
\* leaves the driver able to go on until every file has its outcome.
C3_FailureIsolated ==
    /\ [](multi /\ (\E f \in Files : outcome[f] = "failed")
            => /\ exitCode = 0
               /\ mainpc # "exited"
               /\ ~Ended => ENABLED NextBatch
               /\ mainpc = "returned" => \A g \in Files : outcome[g] # "none")
    /\ [][\A f \in Files :
            outcome[f] = "none" /\ outcome'[f] = "failed"
                => /\ \A g \in Files \ {f} : wpc'[g] = wpc[g] /\ outcome'[g] = outcome[g]
                   /\ conc' = conc /\ wg' = wg /\ mainpc' = mainpc]_vars

\* C3 witness: the driver has returned from a batch in which a conversion
\* failed and another succeeded.
C3_Witness ==
    /\ multi /\ mainpc = "returned"
    /\ \E f, g \in Files : outcome[f] = "failed" /\ outcome[g] = "ok"

\* the last status fetch of Wait yielded a status whose step is not terminal
InProgress ==
    cv.polls > 0 /\ cv.last.ok /\ cv.last.step \notin {"finished", "error"}

\* C4: Wait returns nil only for a fetched status of step "finished", returns
\* an error with the message of the status for a fetched status of step
\* "error", and goes on polling after a status of any other step.
C4_WaitReturns ==
    /\ cv.waitRet = "nil" => cv.last.ok /\ cv.last.step = "finished"
    /\ cv.polls > 0 /\ cv.last.ok /\ cv.last.step = "error"
           => cv.waitRet = "error" /\ cv.ret = "error" /\ cv.msg = cv.last.message
    /\ InProgress => cv.waitRet = "none" /\ cv.pc = "wait"

\* C4 witness: Wait has returned the message of an error status after
\* polling more than once.
C4_Witness ==
    /\ cv.waitRet = "error" /\ cv.last.ok /\ cv.last.message = "m2"
    /\ cv.polls > 1

\* C5: in a conversion not served from the history and without an output
\* override the requests come in the order create, upload, status fetches,
\* download: the upload after a creation without error, the status fetches
\* after an upload without error, the download after a fetch that saw
\* "finished".
C5_Sequence ==
    output = "" /\ cv.reqs # <<>> /\ cv.reqs[1] = "create"
        => \A i \in 1..Len(cv.reqs) :
              /\ cv.reqs[i] = "create" => i = 1
              /\ cv.reqs[i] = "upload" => i = 2 /\ cv.conv /\ cv.perr = ""
              /\ cv.reqs[i] = "status" => i > 2 /\ cv.reqs[2] = "upload" /\ cv.started
              /\ cv.reqs[i] = "download"
                    => /\ i = Len(cv.reqs)
                       /\ cv.waitRet = "nil" /\ cv.last.ok /\ cv.last.step = "finished"
                       /\ \E j \in 3..(i - 1) : cv.reqs[j] = "status"

\* C5 witness: a conversion went through creation, upload, two polls and the
\* download, and wrote its destination.
C5_Witness ==
    /\ output = "" /\ cv.saved
    /\ Len(cv.reqs) >= 6 /\ cv.reqs[1] = "create" /\ cv.reqs[Len(cv.reqs)] = "download"

\* the sleep the estimate formula gives: E * (100 - p) / p / 2 seconds,
\* clamped to [1 second, 1 minute], in milliseconds
ClampedEstimate(E, p) ==
    LET est == IF p = 100 THEN 0
               ELSE IF E >= LongElapsed THEN Minute
               ELSE (E * 1000 * (100 - p)) \div (2 * p)
    IN  IF est < Second THEN Second ELSE IF est > Minute THEN Minute ELSE est

\* C6: after a status that is not terminal, with a percentage p in (0, 100]
\* and a start E in the past, Wait sleeps E * (100 - p) / p / 2 clamped to
\* [1 second, 1 minute].
C6_SleepIsClampedEstimate ==
    (/\ InProgress
     /\ cv.last.percent.kind = "num"
     /\ cv.last.percent.val > 0 /\ cv.last.percent.val <= 100
     /\ cv.last.elapsed >= 0)
        => /\ cv.sleep = ClampedEstimate(cv.last.elapsed, cv.last.percent.val)
           /\ cv.sleep >= Second /\ cv.sleep <= Minute

\* the percentages C7 is about: empty, not a number, below 0 or above 100
Malformed(percent) ==
    \/ percent.kind \in {"empty", "bad"}
    \/ percent.kind = "num" /\ (percent.val < 0 \/ percent.val > 100)

\* C7: a malformed percentage never makes Wait return: Wait sleeps 1 second
\* and polls again; and when Wait returns, it is for the step of the last
\* status or for the failed fetches, with the result the step decides.
C7_MalformedPercent ==
    /\ InProgress /\ Malformed(cv.last.percent)
           => cv.pc = "wait" /\ cv.waitRet = "none" /\ cv.ret = "none" /\ cv.sleep = Second
    /\ cv.waitRet # "none"
           => \/ ~cv.last.ok /\ cv.waitRet = "error"
              \/ cv.last.ok /\ cv.last.step = "finished" /\ cv.waitRet = "nil"
              \/ cv.last.ok /\ cv.last.step = "error" /\ cv.waitRet = "error"

\* C7 witness: Wait goes on after a status with the percentage 101 and a
\* start in the future.
C7_Witness ==
    /\ InProgress /\ cv.pc = "wait"
    /\ cv.last.percent = [kind |-> "num", val |-> 101] /\ cv.last.elapsed < 0

\* C8: Wait returns the error of a failed fetch exactly when it is the 4th
\* failure in a row, a successful fetch starting the count again.
C8_FourInARow ==
    /\ cv.waitRet = "error" /\ ~cv.last.ok => cv.row = 4
    /\ cv.row >= 4 => cv.waitRet = "error"

\* C9: when the creation returns a Process with an error field, NewConversion
\* returns that error and no Conversion, and convert sends no other request.
C9_RejectedCreation ==
    cv.perr # ""
        => /\ cv.pc = "ret" /\ cv.ret = "error"
           /\ cv.stage = "NewConversion" /\ cv.msg = cv.perr
           /\ ~cv.conv /\ ~cv.started /\ ~cv.saved
           /\ cv.reqs = <<"create">>

\* C9 witness: the process has ended after a creation that returned the
\* error "e1" next to a URL.
C9_Witness == cv.perr = "e1" /\ mainpc = "exited" /\ exitCode = 4

\* main is past the construction of the index
IndexBuilt == mainpc \notin {"list", "index"}

\* the entries of the history that are finished and have an input file
\* name, an output file name and an output URL
Complete(h) ==
    /\ h.step = "finished"
    /\ h.status.in # <<>> /\ h.status.out # "" /\ h.status.url # ""

\* C10 as claimed: every complete entry is found under the lowercased base
\* name of its input file name and under that key with its spaces replaced
\* by the path separator, each mapped to its output URL.
C10_TwoKeys ==
    IndexBuilt
        => \A i \in 1..Len(history) :
              LET h == history[i]
                  key == ToLower(Base(h.status.in))
              IN  Complete(h)
                     => \A k \in {key, ReplaceSpaces(key)} :
                           k \in DOMAIN oldConversions /\ oldConversions[k] = h.status.url

\* the two keys the index has for a complete entry: the lowercased base name
\* of its input file name, and the base name of that key with its spaces
\* replaced by the path separator
KeysOf(h) ==
    LET key == ToLower(Base(h.status.in))
    IN  {key, Base(ReplaceSpaces(key))}

\* C10 as amended: every complete entry is found under its two keys, the
\* second being the base name of the key with replaced spaces; each key maps
\* to the output URL of the last complete entry that has this key.
C10_TwoKeysAmended ==
    IndexBuilt
        => \A i \in 1..Len(history) :
              Complete(history[i])
                 => \A k \in KeysOf(history[i]) :
                       LET last == CHOOSE j \in i..Len(history) :
                                      /\ Complete(history[j]) /\ k \in KeysOf(history[j])
                                      /\ \A m \in (j + 1)..Len(history) :
                                            ~(Complete(history[m]) /\ k \in KeysOf(history[m]))
                       IN  k \in DOMAIN oldConversions
                              /\ oldConversions[k] = history[last].status.url

\* C10 witness: the index is built from a history with the complete entry
\* "A b" and holds its keys "a b" and "b".
C10_Witness ==
    /\ IndexBuilt
    /\ \E i \in 1..Len(history) :
          Complete(history[i]) /\ history[i].status.in = <<"A", " ", "b">>
    /\ {<<"a", " ", "b">>, <<"b">>} \subseteq DOMAIN oldConversions

\* C11: every key of the index comes from an entry the loop has passed that
\* is finished and has an input file name, an output file name and an output
\* URL, and its value is the output URL, not empty, of such an entry; an
\* entry that lacks one of these adds no key.
C11_OnlyCompleteIndexed ==
    \A k \in DOMAIN oldConversions :
        /\ oldConversions[k] # ""
        /\ \E i \in 1..Len(history) :
              /\ i < hi
              /\ Complete(history[i])
              /\ k \in KeysOf(history[i])
              /\ oldConversions[k] = history[i].status.url

\* C11 witness: the index is built from a history with a complete entry and
\* a finished entry that has an input file name and an output URL but no
\* output file name, whose keys are not in the index.
C11_Witness ==
    /\ IndexBuilt
    /\ DOMAIN oldConversions # {}
    /\ \E i \in 1..Len(history) :
          /\ history[i].step = "finished"
          /\ history[i].status.in # <<>> /\ history[i].status.url # ""
          /\ history[i].status.out = ""
          /\ KeysOf(history[i]) \cap DOMAIN oldConversions = {}

\* the search of convert has ended with a hit
Hit == cv.pc \notin {"idle", "lookup"} /\ cv.ok

\* C12: once the search of convert has ended, a source file whose lowercased
\* base name is a key of the index is a hit, with the URL recorded under that
\* key, whatever its directory and letter case.
C12_LookupByBaseName ==
    cv.pc \notin {"idle", "lookup"}
        /\ ToLower(Base(cv.fromFile)) \in DOMAIN oldConversions
        => Hit /\ cv.dl = oldConversions[ToLower(Base(cv.fromFile))]

\* C13: after a hit convert sends no create, upload or status request: its
\* only request is the download of the URL recorded in the index, and when
\* it returns nil the body is written to the destination file.
C13_HitOnlyDownloads ==
    Hit => /\ cv.reqs \in {<<>>, <<"download">>}
           /\ cv.dl \in {oldConversions[k] : k \in DOMAIN oldConversions}
           /\ ~cv.conv /\ ~cv.started /\ cv.polls = 0
           /\ cv.pc = "ret" => cv.reqs = <<"download">>
           /\ cv.ret = "nil" => cv.saved

\* C13 witness: convert has returned nil after a hit on a file given with a
\* directory, and has written the destination from the recorded URL.
C13_Witness ==
    /\ Hit /\ cv.ret = "nil" /\ cv.saved /\ cv.dl = "U1"
    /\ cv.fromFile = <<"d", "/", "a", " ", "b">>

\* the destination file name has no extension and no target format is given
NoFormat == flagToFormat = <<>> /\ Ext(cv.toFile) = <<>>

\* C14: no upload is attempted with an empty destination format: without an
\* extension of the destination and without a target format no job is
\* requested and NewConversion returns no Conversion, so a Conversion that
\* reaches Start has a toFormat that is not empty.
C14_FormatNeverEmpty ==
    /\ cv.pc \notin {"idle", "lookup"} /\ NoFormat
           => cv.reqs = <<>> /\ ~cv.conv /\ cv.pc \in {"create", "ret"}
    /\ cv.conv => cv.toFormat # <<>>
    /\ \A i \in 1..Len(cv.reqs) : cv.reqs[i] = "upload" => cv.toFormat # <<>>

\* fmt is what follows the last dot of the last element of file, in the
\* case it has there; it is empty when that element has no dot
IsExtensionOf(fmt, file) ==
    IF fmt = <<>>
        THEN \A i \in 1..Len(file) :
                file[i] = "." => \E j \in (i + 1)..Len(file) : file[j] = PathSeparator
        ELSE /\ Len(file) > Len(fmt)
             /\ file[Len(file) - Len(fmt)] = "."
             /\ \A i \in 1..Len(fmt) :
                   fmt[i] = file[Len(file) - Len(fmt) + i] /\ fmt[i] \notin {".", PathSeparator}

\* C15: the destination format of a Conversion is the target format given
\* with -tofmt when there is one, otherwise the extension of the destination
\* file name without its dot and in its own letter case.
C15_ResolvedFormat ==
    cv.conv => IF flagToFormat # <<>>
                  THEN cv.toFormat = flagToFormat
                  ELSE IsExtensionOf(cv.toFormat, cv.toFile)

\* C15 witness: a Conversion for the destination "o.B" without -tofmt has
\* the format "B", and one for the same destination with -tofmt c has "c".
C15_Witness ==
    /\ cv.conv /\ cv.toFile = <<"o", ".", "B">>
    /\ \/ flagToFormat = <<>> /\ cv.toFormat = <<"B">>
       \/ flagToFormat = <<"c">> /\ cv.toFormat = <<"c">>

\* the URL u as the claim wants it kept: with the scheme in front when it
\* begins with "//", unchanged otherwise
Absolute(scheme, u) ==
    IF Len(u) >= 2 /\ u[1] = "/" /\ u[2] = "/" THEN <<scheme, ":">> \o u ELSE u

\* u begins with "//"
ProtocolRelative(u) == Len(u) >= 2 /\ u[1] = "/" /\ u[2] = "/"

C17_NilOptions ==
    up.opts.nil
        => /\ up.pc # "panic"
           /\ up.pc = "ret" /\ up.err = ""
                 => /\ up.sent /\ up.filePart
                    /\ up.fields = {"input"} \cup (IF up.outFormat # "" THEN {"outputformat"} ELSE {})

\* Wait, at the receive from t.C, has a value to receive or a timer that
\* will send one
TickPending == tw.C > 0 \/ (~tw.fired /\ ~tw.stopped)

\* C18: the timer-based Wait polls again every checkInterval until the step
\* is "finished" or "error": whenever it waits for the next tick of its
\* timer a tick comes, and when it has returned after a status it is for
\* such a step.
C18_TimerWaitPollsAgain ==
    /\ tw.pc = "range" => TickPending
    /\ tw.ret = "nil" => tw.polls > 0

\* a conversion has started: convert was called by main or by a worker
ConversionStarted ==
    \/ cv.pc # "idle"
    \/ \E f \in Files : wpc[f] \in {"convert", "send", "exit", "done"}

\* C19: the index is complete before the first conversion starts, and once
\* it is built no step writes it: the workers of a batch only read it.
C19_IndexReadOnly ==
    /\ [](ConversionStarted => IndexBuilt)
    /\ [][IndexBuilt => oldConversions' = oldConversions]_vars

\* C19 witness: two workers of a batch are in convert at once, with an
\* index that is not empty.
C19_Witness ==
    /\ Cardinality({f \in Files : wpc[f] = "convert"}) >= 2
    /\ DOMAIN oldConversions # {}

\* C20: once the channel is filled the free tokens and the workers that
\* hold one add up to C; a worker past its release has the outcome of its
\* conversion, success or failure; and all C tokens are free when the driver
\* has returned.
C20_TokensConserved ==
    multi /\ mainpc \in {"dispatch", "wgwait", "returned"}
        => /\ conc + Cardinality(Active) = C
           /\ \A f \in Files : wpc[f] \in {"send", "exit", "done"} => outcome[f] # "none"
           /\ mainpc = "returned" => conc = C

\* C20 witness: the driver has returned with all tokens free from a batch
\* of more files than tokens, two of which failed.
C20_Witness ==
    /\ multi /\ mainpc = "returned" /\ conc = C /\ Len(args) > C
    /\ Cardinality({f \in Files : outcome[f] = "failed"}) = 2

\* C21: Wait makes at most 4 failed status fetches: after each of the first
\* three it sleeps the backoff of 10 seconds and fetches again, at the 4th it
\* returns the error of that fetch.
C21_FailedFetchesEnd ==
    /\ cv.errcnt <= 4
    /\ cv.polls > 0 /\ ~cv.last.ok /\ cv.errcnt <= 3
           => cv.pc = "wait" /\ cv.waitRet = "none" /\ cv.sleep = 10 * Second
    /\ cv.errcnt = 4
           => /\ ~cv.last.ok /\ cv.pc = "ret"
              /\ cv.waitRet = "error" /\ cv.ret = "error"
              /\ cv.stage = "Wait" /\ cv.msg = "neterr"
    /\ cv.row >= 4 => cv.errcnt = 4

\* C21 witness: Wait has returned the error of its 4th fetch, all four
\* having failed.
C21_Witness ==
    /\ cv.waitRet = "error" /\ ~cv.last.ok
    /\ cv.polls = 4 /\ cv.row = 4 /\ cv.reqs = <<"create", "upload", "status", "status", "status", "status">>

\* C23: after a status that is not terminal and has the percentage 0, Wait
\* sleeps the interval it uses when it has no estimate, 1 second.
C23_ZeroPercentSleep ==
    (/\ InProgress
     /\ cv.last.percent.kind = "num"
     /\ cv.last.percent.val = 0)
        => cv.sleep = Second

\* C24: two workers that convert at the same time, for different source
\* files, write different destination files.
C24_DistinctDestinations ==
    multi
        => \A f, g \in Files :
              (/\ f # g /\ args[f] # args[g]
               /\ wpc[f] = "convert" /\ wpc[g] = "convert")
                  => changeExt(args[f], flagToFormat) # changeExt(args[g], flagToFormat)

\* C26: when List itself does not fail, main builds the index from the whole
\* list, whichever status lookups failed: every entry whose lookup succeeded
\* and that is complete has its keys in the index.
C26_ListToleratesFailures ==
    IndexBuilt /\ ~listFail
        => /\ Len(history) = Len(remoteHist)
           /\ \A i \in 1..Len(remoteHist) :
                 LET h == [step |-> remoteHist[i].step, status |-> remoteHist[i].status]
                 IN  remoteHist[i].ok /\ Complete(h)
                        => KeysOf(h) \subseteq DOMAIN oldConversions

\* C22: an upload whose read of the source file fails does not return nil,
\* and its reader does not get a body that ends with the closing boundary
\* and the end of the stream, like the body of a file sent in full.
C22_ReadErrorFailsUpload ==
    up.read = "err"
        => /\ up.pc = "ret" => up.err # ""
           /\ ~(up.rpc = "eof" /\ up.closing)

\* UploadFile has not returned or panicked, or its goroutine is running
UploadRunning ==
    \/ up.pc \notin {"idle", "ret", "panic"}
    \/ up.gpc \notin {"none", "done"}

\* C25: while UploadFile or its goroutine is running, a step of the writer
\* or of the reader of the pipe is possible; and the reader sees the end of
\* the stream only after every byte written, the closing boundary last.
C25_NoPipeDeadlock ==
    /\ UploadRunning => ENABLED NextUpload
    /\ up.rpc = "eof"
           => /\ up.closing /\ up.wclosed /\ up.pend = 0 /\ up.buffered = 0
              /\ up.got = MetaLen(up.outFormat, up.o) + HeaderLen + up.copied + TrailerLen

====
